---- MODULE Spec2Model ----
(***************************************************************************)
(* Marigold-DC: MarigoldDepthCompletionPipeline.__call__                   *)
(* (src/marigold_dc.py).                                                   *)
(*                                                                         *)
(* One pipeline object lives across invocations of __call__.  Its own      *)
(* state is the cached empty-prompt embedding and the scheduler.  An       *)
(* invocation is followed through its program points (pc).                 *)
(*                                                                         *)
(* The networks, the codec, the scheduler's update rule and the optimizer  *)
(* are collaborators whose arithmetic is not part of this repository: a    *)
(* tensor they produce is represented by a name <<variable, k>> (the value *)
(* bound to the variable in iteration k) and the tape records, in program  *)
(* order, which operation produced each name from which operands.  Two     *)
(* tapes that agree denote the same computation, whatever the weights.     *)
(* The sparse depth field, its mask and its range statistics are concrete  *)
(* numbers.                                                                *)
(***************************************************************************)
EXTENDS Integers, Sequences, FiniteSets, TLC

\* ------------------------------------------------------------------ bounds
MaxDim == 2      \* image height and width range over 1..MaxDim
MaxSteps == 2    \* num_inference_steps ranges over -1..MaxSteps

None == <<>>          \* an unbound variable holding a tensor, an array or an object
Unbound == 0          \* an unbound variable holding a number
NoError == "none"

\* ------------------------------------------------------------------ inputs
Dims == 1..MaxDim
ImageSizes == {<<h, w>> : h \in Dims, w \in Dims}
DepthValues == {-1, 0, 2, 8}
\* The entries of a field are numbers of numpy's float64.  The integers up to
\* MaxFloat32 in size stand for the values single precision holds exactly;
\* Huge is a finite double beyond the single-precision range, Inf is
\* infinity and NaN is not-a-number.
MaxFloat32 == 8
Huge == MaxFloat32 + 1
Inf == MaxFloat32 + 2
NaN == MaxFloat32 + 3
Float64Values == DepthValues \cup {Huge, Inf, NaN}
StepCounts == (-1)..MaxSteps
Seeds == {2024, 7}
Resolutions == {0, 768}
InterpolationModes == {"bilinear", "nearest", "bicubic"}
\* the modes the docstring of __call__ names
SupportedModes == {"bilinear", "nearest"}

RECURSIVE Prod(_)
Prod(s) == IF s = <<>> THEN 1 ELSE Head(s) * Prod(Tail(s))

\* a numpy array: shape and row-major data
Array(shape, data) == [shape |-> shape, data |-> data]
ndim(a) == Len(a.shape)

\* a field that is zero except for a measurement v1 in its first cell and a
\* measurement v2 in its last cell
Field(shape, v1, v2) ==
    Array(shape, [i \in 1..Prod(shape) |->
                    IF i = Prod(shape) THEN v2 ELSE IF i = 1 THEN v1 ELSE 0])

\* the fields offered with an image of size <<h, w>>: fields of the image's
\* size, and fields of another size or rank
MatchingFields(h, w) == {Field(<<h, w>>, v1, v2) : v1 \in DepthValues, v2 \in DepthValues}
OtherShapes(h, w) == {<<h * w>>, <<1, h, w>>, <<h, w + 1>>, <<h + 1, w>>}
OtherFields(h, w) == {Field(s, 0, v2) : s \in OtherShapes(h, w), v2 \in {0, 2}}
FieldsFor(h, w) == MatchingFields(h, w) \cup OtherFields(h, w)

\* ------------------------------------------------------------------- state
VARIABLES
    \* the pipeline object
    empty_text_embedding,   \* self.empty_text_embedding
    scheduler,              \* self.scheduler: [timesteps, num_inference_steps]
    text_encoder_calls,     \* calls of self.text_encoder in the object's lifetime
    \* the invocation
    pc,                     \* program point of __call__
    args,                   \* the arguments of the invocation
    generator,              \* torch.Generator: [seed, draws]
    tape,                   \* operations executed by the invocation, in order
    original_resolution,
    image_latent,
    pred_latent,
    sparse_depth,           \* the tensor [1,1,H,W] made from args.sparse_depth
    sparse_mask,
    scale,
    shift,
    sparse_range,
    sparse_lower,
    optimizer,              \* torch.optim.Adam: [step], the steps taken
    timesteps,              \* the sequence the for loop iterates
    i,                      \* timesteps consumed by the for loop
    noise,
    pred_epsilon,
    pred_epsilon_norm,
    depth_latent_grad_norm,
    scaling_factor,         \* <<numerator, denominator>>
    grad_norm,              \* norm of pred_latent.grad as <<numerator, denominator>>
    result,                 \* the returned array
    error,                  \* the exception raised
    \* evaluate.py, main: the locals of lines 56-109 (pc and error are then
    \* main's program point and the exception it raised)
    input_img_paths,
    input_depth_paths,
    img_stem_to_path,       \* a dict: its items in insertion order
    img_stems_to_skip,
    depth_stem_to_path,
    depth_stems_to_skip,
    input_pairs

object == <<empty_text_embedding, scheduler, text_encoder_calls>>
setup_locals == <<original_resolution, image_latent, sparse_depth, sparse_mask,
                  sparse_range, sparse_lower>>
params == <<pred_latent, scale, shift, optimizer>>
iter_locals == <<noise, pred_epsilon>>
norms == <<pred_epsilon_norm, depth_latent_grad_norm, scaling_factor, grad_norm>>
script == <<input_img_paths, input_depth_paths, img_stem_to_path, img_stems_to_skip,
            depth_stem_to_path, depth_stems_to_skip, input_pairs>>
pipeline == <<object, args, generator, tape, setup_locals, params, timesteps, i,
              iter_locals, norms, result>>
vars == <<pipeline, pc, error, script>>

\* main of evaluate.py is not running
ScriptUnstarted ==
    /\ input_img_paths = None /\ input_depth_paths = None
    /\ img_stem_to_path = None /\ img_stems_to_skip = None
    /\ depth_stem_to_path = None /\ depth_stems_to_skip = None
    /\ input_pairs = None

\* ------------------------------------------------------------- the tape
\* one call made: the operation, the names of its outputs, its operands
Op(op, out, in) == <<op, out, in>>
OpName(e) == e[1]
OpOut(e) == e[2]
OpIn(e) == e[3]
Ops(tp, name) == {k \in 1..Len(tp) : OpName(tp[k]) = name}

\* the names of the tensors an invocation binds
image_tensor == <<"image_tensor", 0>>
padding == <<"padding", 0>>
Latent(k) == <<"pred_latent", k>>          \* pred_latent after iteration k
LatentOpt(k) == <<"pred_latent.opt", k>>   \* pred_latent after optimizer.step() of iteration k
Scale(k) == <<"scale", k>>
Shift(k) == <<"shift", k>>

\* ------------------------------------------------- lines 90-99: the call
manual_seed(seed) == [seed |-> seed, draws |-> 0]

\* a rank check that only refuses arrays of too low a rank
InputRankOk_AtLeast2(a) == ndim(a) >= 2
\* line 95: the check of the sparse depth's rank passes
InputRankOk(a) == ndim(a) = 2

ArgsFor(im, sd, n, r, s, e, m) ==
    [image |-> im, sparse_depth |-> sd, num_inference_steps |-> n,
     processing_resolution |-> r, seed |-> s, elemwise_scaling |-> e,
     interpolation_mode |-> m]

Call ==
    /\ pc = "idle"
    /\ UNCHANGED script
    /\ \E im \in ImageSizes, n \in StepCounts, r \in Resolutions, s \in Seeds,
          e \in BOOLEAN, m \in InterpolationModes :
         \E sd \in FieldsFor(im[1], im[2]) :
            /\ args' = ArgsFor(im, sd, n, r, s, e, m)
            /\ generator' = manual_seed(s)
            /\ IF InputRankOk(sd)
                  THEN pc' = "setup" /\ error' = NoError
                  ELSE pc' = "raised" /\ error' = "ValueError"
    /\ UNCHANGED <<object, tape, setup_locals, params, timesteps, i, iter_locals,
                   norms, result>>

\* ------------------------------------------------ lines 101-156: the setup
\* the embedding of the empty prompt
TextEncoderOut == <<"text_encoder", "">>

\* a pipeline that does not look at its cache
EmbeddingMissing_Always(e) == TRUE
\* line 103: the embedding has to be computed
EmbeddingMissing(e) == e = None

\* lines 101-114
EmptyTextOps(e) ==
    IF EmbeddingMissing(e) THEN <<Op("text_encoder", <<TextEncoderOut>>, <<"">>)>> ELSE <<>>

\* lines 116-128: preprocess the image, encode it and draw the initial latent
EncodeOps(a, gen) ==
    <<Op("preprocess", <<image_tensor, padding>>, <<a.image, a.processing_resolution>>),
      Op("prepare_latents", <<<<"image_latent", 0>>, Latent(0)>>, <<image_tensor, gen>>)>>

\* line 131, .float(): a double becomes the single-precision number next to
\* it, infinity if it is beyond the single-precision range
float32(v) ==
    IF v = NaN THEN NaN
    ELSE IF v > MaxFloat32 THEN Inf
    ELSE IF v < -MaxFloat32 THEN -Inf
    ELSE v
\* line 131: torch.from_numpy(sparse_depth)[None, None].float()
FromNumpy(a) == Array(<<1, 1>> \o a.shape, [k \in 1..Len(a.data) |-> float32(a.data[k])])

\* a mask that takes the zeros of the field for measurements
Positive_OrZero(v) == v >= 0
\* line 132: sparse_depth > 0
Positive(v) == v # NaN /\ v > 0
MaskOf(x) == Array(x.shape, [k \in 1..Len(x.data) |-> Positive(x.data[k])])

\* x[mask] for a mask of x's shape: the selected entries, in order
RECURSIVE Select(_, _, _)
Select(data, mask, k) ==
    IF k > Len(data) THEN <<>>
    ELSE (IF mask[k] THEN <<data[k]>> ELSE <<>>) \o Select(data, mask, k + 1)
MaskedSelect(x, mask) == Select(x.data, mask.data, 1)

SeqRange(s) == {s[k] : k \in 1..Len(s)}
\* lines 145-146: .min() and .max() raise on a selection with no element
ReductionRaises(sel) == Len(sel) = 0
depth_min(sel) == CHOOSE v \in SeqRange(sel) : \A u \in SeqRange(sel) : v <= u
depth_max(sel) == CHOOSE v \in SeqRange(sel) : \A u \in SeqRange(sel) : v >= u
\* line 147: the difference of two single-precision numbers, the first not
\* below the second
Minus(a, b) ==
    IF a = NaN \/ b = NaN \/ (a = Inf /\ b = Inf) THEN NaN
    ELSE IF a = Inf THEN Inf
    ELSE a - b

\* lines 136-143: the shape of scale and of shift
ParamShape(elemwise, resolution) == IF elemwise THEN resolution ELSE <<1>>
ParamOps(a) ==
    <<Op("ones", <<Scale(0)>>, ParamShape(a.elemwise_scaling, a.image)),
      Op("ones", <<Shift(0)>>, ParamShape(a.elemwise_scaling, a.image))>>

Setup ==
    /\ pc = "setup"
    /\ UNCHANGED script
    /\ LET sd == FromNumpy(args.sparse_depth)
           mask == MaskOf(sd)
           sel == MaskedSelect(sd, mask)
       IN  /\ empty_text_embedding' =
                 IF EmbeddingMissing(empty_text_embedding)
                    THEN TextEncoderOut ELSE empty_text_embedding
           /\ text_encoder_calls' =
                 text_encoder_calls + Len(EmptyTextOps(empty_text_embedding))
           /\ tape' = tape \o EmptyTextOps(empty_text_embedding)
                           \o EncodeOps(args, generator) \o ParamOps(args)
           /\ generator' = [generator EXCEPT !.draws = @ + 1]
           /\ original_resolution' = args.image
           /\ image_latent' = <<"image_latent", 0>>
           /\ pred_latent' = Latent(0)
           /\ sparse_depth' = sd
           /\ sparse_mask' = mask
           /\ scale' = Scale(0)
           /\ shift' = Shift(0)
           /\ IF ReductionRaises(sel)
                 THEN /\ pc' = "raised" /\ error' = "RuntimeError"
                      /\ UNCHANGED <<sparse_range, sparse_lower, optimizer>>
                 ELSE /\ sparse_range' = Minus(depth_max(sel), depth_min(sel))
                      /\ sparse_lower' = depth_min(sel)
                      /\ optimizer' = [step |-> 0]
                      /\ pc' = "set_timesteps"
                      /\ UNCHANGED error
    /\ UNCHANGED <<scheduler, args, timesteps, i, iter_locals, norms, result>>

\* ------------------------------------------- line 189: set_timesteps
\* The schedule for n >= 1 steps: n timesteps in descending order.
TimestepsFor(n) == [k \in 1..n |-> n - k]

\* What self.scheduler.set_timesteps(n) may do.  The scheduler is not part of
\* this repository; for n >= 1 it installs the schedule, and __call__ puts no
\* check in front of it, so for n <= 0 it may raise or install an empty schedule.
SetTimestepsOutcomes(n) == IF n >= 1 THEN {"ok"} ELSE {"raise", "empty"}

\* a scheduler that keeps the schedule it already has
set_timesteps_Stale(n) ==
    IF scheduler.timesteps # <<>> THEN scheduler
    ELSE [timesteps |-> IF n >= 1 THEN TimestepsFor(n) ELSE <<>>, num_inference_steps |-> n]
set_timesteps(n) ==
    [timesteps |-> IF n >= 1 THEN TimestepsFor(n) ELSE <<>>, num_inference_steps |-> n]

SetTimestepsOps(n) == <<Op("set_timesteps", <<<<"timesteps", 0>>>>, <<n>>)>>

SetTimesteps ==
    /\ pc = "set_timesteps"
    /\ UNCHANGED script
    /\ \E outcome \in SetTimestepsOutcomes(args.num_inference_steps) :
         /\ tape' = tape \o SetTimestepsOps(args.num_inference_steps)
         /\ IF outcome = "raise"
               THEN /\ pc' = "raised" /\ error' = "SchedulerError"
                    /\ UNCHANGED <<scheduler, timesteps>>
               ELSE /\ scheduler' = set_timesteps(args.num_inference_steps)
                    /\ timesteps' = scheduler'.timesteps
                    /\ pc' = "loop" /\ UNCHANGED error
    /\ UNCHANGED <<empty_text_embedding, text_encoder_calls, args, generator,
                   setup_locals, params, i, iter_locals, norms, result>>

\* ------------------------------------------------ lines 163-179, 158-161
\* What resize_antialias may do with the interpolation mode: __call__ passes
\* the mode on unchecked, and a mode the resize does not know may raise.
ResizeOutcomes(mode) == IF mode \in SupportedModes THEN {"ok"} ELSE {"ok", "raise"}

\* latent_to_metric(latent) up to the resize; tag is the iteration, or 0 for
\* the pass after the loop
DecodeOps(tag, latent, a) ==
    <<Op("decode_prediction", <<<<"decoded", tag>>>>, <<latent>>),
      Op("unpad_image", <<<<"unpadded", tag>>>>, <<<<"decoded", tag>>, padding>>),
      Op("resize_antialias", <<<<"resized", tag>>>>,
         <<<<"unpadded", tag>>, a.image, a.interpolation_mode>>)>>

\* affine_to_metric(depth) on what the resize returned
AffineOps(tag, sc, sh, rng, low) ==
    <<Op("affine_to_metric", <<<<"metric", tag>>>>, <<sc, rng, <<"resized", tag>>, sh, low>>)>>

\* the shape of latent_to_metric's result: the resized prediction [1,1,H,W]
\* broadcast with scale and shift
MetricShape(resolution) == <<1, 1>> \o resolution

\* line 223: x[mask] needs the mask's shape to be the leading part of x's shape
RECURSIVE IsPrefix(_, _)
IsPrefix(s, t) ==
    \/ s = <<>>
    \/ /\ t # <<>> /\ Head(s) = Head(t) /\ IsPrefix(Tail(s), Tail(t))
MaskIndexOk(xshape, mshape) == Len(mshape) <= Len(xshape) /\ IsPrefix(mshape, xshape)

\* ------------------------------------------ lines 190-225: guidance forward
\* a loop that stops one timestep early
LoopDone_OneEarly(k, ts) == k + 1 >= Len(ts)
\* line 190: the for loop has consumed every timestep
LoopDone(k, ts) == k >= Len(ts)

Noise(k) == <<"noise", k>>
PredEpsilon(k) == <<"pred_epsilon", k>>
PredOriginalSample(k) == <<"pred_original_sample", k>>
LatentGrad(k) == <<"pred_latent.grad", k>>
ScaledGrad(k) == <<"pred_latent.grad.scaled", k>>

\* a forward pass whose conditioning latent is encoded anew in every iteration
ForwardOps_Reencoded(k, t, imgl, lat, emb, sched, gen) ==
    <<Op("optimizer.zero_grad", <<>>, <<>>),
      Op("unet", <<Noise(k)>>, <<<<"image_latent", k - 1>>, lat, t, emb>>),
      Op("pred_epsilon", <<PredEpsilon(k)>>, <<<<"alphas_cumprod", t>>, Noise(k), lat>>),
      Op("scheduler.step", <<PredOriginalSample(k)>>,
         <<Noise(k), t, lat, gen, sched.num_inference_steps>>)>>
\* lines 191-214: zero_grad, the U-Net, pred_epsilon, the preview step
ForwardOps(k, t, imgl, lat, emb, sched, gen) ==
    <<Op("optimizer.zero_grad", <<>>, <<>>),
      Op("unet", <<Noise(k)>>, <<imgl, lat, t, emb>>),
      Op("pred_epsilon", <<PredEpsilon(k)>>, <<<<"alphas_cumprod", t>>, Noise(k), lat>>),
      Op("scheduler.step", <<PredOriginalSample(k)>>,
         <<Noise(k), t, lat, gen, sched.num_inference_steps>>)>>

\* lines 222-225: the loss over the masked entries, and its gradients
LossOps(k, sd, mask) ==
    <<Op("loss_l1l2", <<<<"loss", k>>>>,
         <<<<"metric", k>>, mask.data, MaskedSelect(sd, mask)>>),
      Op("backward", <<LatentGrad(k), <<"scale.grad", k>>, <<"shift.grad", k>>>>,
         <<<<"loss", k>>>>)>>

GuidanceForward ==
    /\ pc = "loop"
    /\ UNCHANGED script
    /\ ~LoopDone(i, timesteps)
    /\ LET k == i + 1
           t == timesteps[k]
           fwd == ForwardOps(k, t, image_latent, pred_latent, empty_text_embedding,
                             scheduler, generator)
           dec == DecodeOps(k, PredOriginalSample(k), args)
       IN  /\ noise' = Noise(k)
           /\ pred_epsilon' = PredEpsilon(k)
           /\ \E outcome \in ResizeOutcomes(args.interpolation_mode) :
                IF outcome = "raise"
                   THEN /\ tape' = tape \o fwd \o dec
                        /\ pc' = "raised" /\ error' = "ResizeError"
                   ELSE IF ~MaskIndexOk(MetricShape(original_resolution),
                                         sparse_mask.shape)
                   THEN /\ tape' = tape \o fwd \o dec
                                        \o AffineOps(k, scale, shift, sparse_range, sparse_lower)
                        /\ pc' = "raised" /\ error' = "IndexError"
                   ELSE /\ tape' = tape \o fwd \o dec
                                        \o AffineOps(k, scale, shift, sparse_range, sparse_lower)
                                        \o LossOps(k, sparse_depth, sparse_mask)
                        /\ pc' = "scale_gradients" /\ UNCHANGED error
    /\ UNCHANGED <<object, args, generator, setup_locals, params, timesteps, i,
                   norms, result>>

\* ------------------------------------------- lines 227-232: scale gradients
\* The norms are measured in units of half the floor of line 231.
GradFloor == 2
\* the norms torch.linalg.norm may return for pred_epsilon and pred_latent.grad
PredEpsilonNorms == {0, 3}
GradNorms == {0, 1, 2, 4}

Max(a, b) == IF a >= b THEN a ELSE b
\* a floor that is added to the gradient's norm instead of bounding it
ScalingFactor_AddedFloor(pn, gn) == <<pn, gn + GradFloor>>
\* line 231, as the fraction <<numerator, denominator>>
ScalingFactor(pn, gn) == <<pn, Max(gn, GradFloor)>>
\* line 232: the norm of grad * c is the norm of grad times c, for c >= 0
ScaledNorm(gn, c) == <<gn * c[1], c[2]>>

\* line 232: pred_latent.grad *= norm(pred_epsilon) / max(norm(grad), floor)
ScaleOps(k, pe) == <<Op("mul_", <<ScaledGrad(k)>>, <<LatentGrad(k), pe>>)>>

ScaleGradients ==
    /\ pc = "scale_gradients"
    /\ UNCHANGED script
    /\ \E pn \in PredEpsilonNorms, gn \in GradNorms :
         /\ pred_epsilon_norm' = pn
         /\ depth_latent_grad_norm' = gn
         /\ scaling_factor' = ScalingFactor(pn, gn)
         /\ grad_norm' = ScaledNorm(gn, ScalingFactor(pn, gn))
    /\ tape' = tape \o ScaleOps(i + 1, pred_epsilon)
    /\ pc' = "optimizer_step"
    /\ UNCHANGED <<object, args, generator, setup_locals, params, timesteps, i,
                   iter_locals, result, error>>

\* ------------------------------------------------ line 235: optimizer.step()
OptimizerOps(k, lat, sc, sh, opt) ==
    <<Op("optimizer.step", <<LatentOpt(k), Scale(k), Shift(k)>>,
         <<lat, sc, sh, ScaledGrad(k), <<"scale.grad", k>>, <<"shift.grad", k>>, opt>>)>>

OptimizerStep ==
    /\ pc = "optimizer_step"
    /\ UNCHANGED script
    /\ tape' = tape \o OptimizerOps(i + 1, pred_latent, scale, shift, optimizer)
    /\ pred_latent' = LatentOpt(i + 1)
    /\ scale' = Scale(i + 1)
    /\ shift' = Shift(i + 1)
    /\ optimizer' = [step |-> optimizer.step + 1]
    \* nothing reads the norms after line 232
    /\ pred_epsilon_norm' = Unbound /\ depth_latent_grad_norm' = Unbound
    /\ scaling_factor' = None /\ grad_norm' = None
    /\ pc' = "denoise_step"
    /\ UNCHANGED <<object, args, generator, setup_locals, timesteps, i,
                   iter_locals, result, error>>

\* ----------------------------------------- lines 237-250: the denoising step
\* a denoising step that starts from the latent the iteration began with
DenoiseOps_FromIterationStart(k, t, nz, lat, sched, gen) ==
    <<Op("scheduler.step", <<Latent(k)>>,
         <<nz, t, Latent(k - 1), gen, sched.num_inference_steps>>)>>
DenoiseOps(k, t, nz, lat, sched, gen) ==
    <<Op("scheduler.step", <<Latent(k)>>, <<nz, t, lat, gen, sched.num_inference_steps>>)>>

DenoiseStep ==
    /\ pc = "denoise_step"
    /\ UNCHANGED script
    /\ tape' = tape \o DenoiseOps(i + 1, timesteps[i + 1], noise, pred_latent,
                                  scheduler, generator)
    /\ pred_latent' = Latent(i + 1)
    /\ noise' = None /\ pred_epsilon' = None
    /\ i' = i + 1
    /\ pc' = "loop"
    /\ UNCHANGED <<object, args, generator, setup_locals, scale, shift, optimizer,
                   timesteps, norms, result, error>>

\* ------------------------------------------ lines 252-262: the final decode
\* line 262: numpy's squeeze() drops every axis of length 1
RECURSIVE squeeze(_)
squeeze(shape) ==
    IF shape = <<>> THEN <<>>
    ELSE (IF Head(shape) = 1 THEN <<>> ELSE <<Head(shape)>>) \o squeeze(Tail(shape))

\* line 259: pt_to_numpy turns [N,1,H,W] into [N,H,W,1]
pt_to_numpy(shape) == <<shape[1], shape[3], shape[4], shape[2]>>

FinalDecode ==
    /\ pc = "loop"
    /\ UNCHANGED script
    /\ LoopDone(i, timesteps)
    /\ image_latent' = None
    /\ \E outcome \in ResizeOutcomes(args.interpolation_mode) :
         IF outcome = "raise"
            THEN /\ tape' = tape \o DecodeOps(0, pred_latent, args)
                 /\ pc' = "raised" /\ error' = "ResizeError"
                 /\ UNCHANGED result
            ELSE /\ tape' = tape \o DecodeOps(0, pred_latent, args)
                                 \o AffineOps(0, scale, shift, sparse_range, sparse_lower)
                 /\ result' = Array(squeeze(pt_to_numpy(MetricShape(original_resolution))),
                                    <<"metric", 0>>)
                 /\ pc' = "returned" /\ UNCHANGED error
    /\ UNCHANGED <<object, args, generator, original_resolution, sparse_depth,
                   sparse_mask, sparse_range, sparse_lower, params, timesteps, i,
                   iter_locals, norms>>

\* ---------------------------------------- the invocation's frame is dropped
\* The caller has the array (line 262) or the exception; the pipeline object
\* stays and can be called again.
Return ==
    /\ pc \in {"returned", "raised"}
    /\ UNCHANGED script
    /\ pc' = "idle"
    /\ args' = None /\ generator' = None /\ tape' = <<>>
    /\ original_resolution' = None /\ image_latent' = None
    /\ sparse_depth' = None /\ sparse_mask' = None
    /\ sparse_range' = Unbound /\ sparse_lower' = Unbound
    /\ pred_latent' = None /\ scale' = None /\ shift' = None /\ optimizer' = None
    /\ timesteps' = None /\ i' = 0
    /\ noise' = None /\ pred_epsilon' = None
    /\ pred_epsilon_norm' = Unbound /\ depth_latent_grad_norm' = Unbound
    /\ scaling_factor' = None /\ grad_norm' = None
    /\ result' = None /\ error' = NoError
    /\ UNCHANGED object

\* ------------------------------------------------------ the specification
\* The pipeline as constructed: no embedding cached, the scheduler without a
\* schedule for any step count.
Init ==
    /\ ScriptUnstarted
    /\ empty_text_embedding = None
    /\ scheduler = [timesteps |-> <<>>, num_inference_steps |-> 0]
    /\ text_encoder_calls = 0
    /\ pc = "idle"
    /\ args = None /\ generator = None /\ tape = <<>>
    /\ original_resolution = None /\ image_latent = None
    /\ sparse_depth = None /\ sparse_mask = None
    /\ sparse_range = Unbound /\ sparse_lower = Unbound
    /\ pred_latent = None /\ scale = None /\ shift = None /\ optimizer = None
    /\ timesteps = None /\ i = 0
    /\ noise = None /\ pred_epsilon = None
    /\ pred_epsilon_norm = Unbound /\ depth_latent_grad_norm = Unbound
    /\ scaling_factor = None /\ grad_norm = None
    /\ result = None /\ error = NoError

Next ==
    \/ Call
    \/ Setup
    \/ SetTimesteps
    \/ GuidanceForward
    \/ ScaleGradients
    \/ OptimizerStep
    \/ DenoiseStep
    \/ FinalDecode
    \/ Return

Spec == Init /\ [][Next]_vars

\* ------------------------------------- affine_to_metric on numbers (C8)
\* The calibration of lines 130-148 and the closure of lines 158-161 with
\* scale, shift and the depth as numbers: scale and shift start at 1, the
\* optimizer may move them anywhere, and affine_to_metric reads them, the range
\* and the lower bound where __call__ left them.
Depths == {-1, 0, 1, 3}
ParamValues == {-1, 0, 1, 2}

affine_to_metric_Unsquared(depth) == scale * sparse_range * depth + shift * sparse_lower
\* line 161
affine_to_metric(depth) == (scale ^ 2) * sparse_range * depth + (shift ^ 2) * sparse_lower

InitAffine ==
    /\ ScriptUnstarted
    /\ empty_text_embedding = None
    /\ scheduler = [timesteps |-> <<>>, num_inference_steps |-> 0]
    /\ text_encoder_calls = 0
    /\ pc = "statistics"
    /\ \E im \in ImageSizes : \E sd \in MatchingFields(im[1], im[2]) :
          args = ArgsFor(im, sd, 1, 768, 2024, FALSE, "bilinear")
    /\ generator = None /\ tape = <<>>
    /\ original_resolution = None /\ image_latent = None
    /\ sparse_depth = None /\ sparse_mask = None
    /\ sparse_range = Unbound /\ sparse_lower = Unbound
    /\ pred_latent = None /\ scale = Unbound /\ shift = Unbound /\ optimizer = None
    /\ timesteps = None /\ i = 0
    /\ noise = None /\ pred_epsilon = None
    /\ pred_epsilon_norm = Unbound /\ depth_latent_grad_norm = Unbound
    /\ scaling_factor = None /\ grad_norm = None
    /\ result = None /\ error = NoError

\* lines 130-148
Statistics ==
    /\ pc = "statistics"
    /\ UNCHANGED script
    /\ LET sd == FromNumpy(args.sparse_depth)
           mask == MaskOf(sd)
           sel == MaskedSelect(sd, mask)
       IN  /\ sparse_depth' = sd
           /\ sparse_mask' = mask
           /\ scale' = 1
           /\ shift' = 1
           /\ IF ReductionRaises(sel)
                 THEN /\ pc' = "raised" /\ error' = "RuntimeError"
                      /\ UNCHANGED <<sparse_range, sparse_lower>>
                 ELSE /\ sparse_range' = Minus(depth_max(sel), depth_min(sel))
                      /\ sparse_lower' = depth_min(sel)
                      /\ pc' = "calibrated" /\ UNCHANGED error
    /\ UNCHANGED <<object, args, generator, tape, original_resolution, image_latent,
                   pred_latent, optimizer, timesteps, i, iter_locals, norms, result>>

\* line 235, for scale and shift: the optimizer sets them to new values
Optimize ==
    /\ pc = "calibrated"
    /\ UNCHANGED script
    /\ \E sc \in ParamValues, sh \in ParamValues : scale' = sc /\ shift' = sh
    /\ UNCHANGED <<object, pc, args, generator, tape, setup_locals, pred_latent,
                   optimizer, timesteps, i, iter_locals, norms, result, error>>

\* line 178: affine_to_metric applied to a depth value
Apply ==
    /\ pc = "calibrated"
    /\ UNCHANGED script
    /\ \E d \in Depths : result' = [depth |-> d, metric |-> affine_to_metric(d)]
    /\ pc' = "applied"
    /\ UNCHANGED <<object, args, generator, tape, setup_locals, params, timesteps, i,
                   iter_locals, norms, error>>

NextAffine ==
    \/ Statistics
    \/ Optimize
    \/ Apply

SpecAffine == InitAffine /\ [][NextAffine]_vars

\* ------------------------------- the statistics on every kind of entry (C13)
\* Lines 130-148 on fields whose entries are any doubles: finite ones within
\* and beyond the single-precision range, infinity and not-a-number.
FloatFields(h, w) == {Field(<<h, w>>, v1, v2) : v1 \in Float64Values, v2 \in Float64Values}

InitStatistics ==
    /\ ScriptUnstarted
    /\ empty_text_embedding = None
    /\ scheduler = [timesteps |-> <<>>, num_inference_steps |-> 0]
    /\ text_encoder_calls = 0
    /\ pc = "statistics"
    /\ \E im \in ImageSizes : \E sd \in FloatFields(im[1], im[2]) :
          args = ArgsFor(im, sd, 1, 768, 2024, FALSE, "bilinear")
    /\ generator = None /\ tape = <<>>
    /\ original_resolution = None /\ image_latent = None
    /\ sparse_depth = None /\ sparse_mask = None
    /\ sparse_range = Unbound /\ sparse_lower = Unbound
    /\ pred_latent = None /\ scale = Unbound /\ shift = Unbound /\ optimizer = None
    /\ timesteps = None /\ i = 0
    /\ noise = None /\ pred_epsilon = None
    /\ pred_epsilon_norm = Unbound /\ depth_latent_grad_norm = Unbound
    /\ scaling_factor = None /\ grad_norm = None
    /\ result = None /\ error = NoError

NextStatistics == Statistics

SpecStatistics == InitStatistics /\ [][NextStatistics]_vars

\* ---------------------------------- evaluate.py, main: lines 56-109 (C14)
\* The two lists of paths are what get_img_paths returns for a directory, or
\* the one path given: distinct paths, several of which may have one stem.
MaxPaths == 3    \* the length of each list ranges over 0..MaxPaths

PathStems == {"a", "b"}
PathSuffixes == {".png", ".jpg", ".jpeg"}
Path(stem, suffix) == [stem |-> stem, suffix |-> suffix]
Paths == {Path(st, sf) : st \in PathStems, sf \in PathSuffixes}
PathLists ==
    UNION {{q \in [1..n -> Paths] : \A j \in 1..n : \A l \in 1..n : j # l => q[j] # q[l]} :
           n \in 0..MaxPaths}

\* a dict is the sequence of its items, in insertion order
Item(key, value) == [key |-> key, value |-> value]
Keys(d) == {d[k].key : k \in 1..Len(d)}
Get(d, key) == (CHOOSE it \in {d[k] : k \in 1..Len(d)} : it.key = key).value
KeepOthers(d, key, k) == SelectSeq(SubSeq(d, k, Len(d)), LAMBDA it : it.key # key)
\* d.pop(key) for a key of d
Pop(d, key) == KeepOthers(d, key, 1)

\* lines 72-77 (84-89): the loop over the paths from the k-th on; a stem
\* already in the mapping is put on the skip list, once for each further path
RECURSIVE StemLoop(_, _, _, _)
StemLoop(paths, k, stem_to_path, stems_to_skip) ==
    IF k > Len(paths) THEN [stem_to_path |-> stem_to_path, stems_to_skip |-> stems_to_skip]
    ELSE IF paths[k].stem \in Keys(stem_to_path)
    THEN StemLoop(paths, k + 1, stem_to_path, Append(stems_to_skip, paths[k].stem))
    ELSE StemLoop(paths, k + 1, Append(stem_to_path, Item(paths[k].stem, paths[k])),
                  stems_to_skip)

\* lines 78-79 (90-91): pop every key of the skip list from the k-th on;
\* dict.pop(key) without a default raises KeyError for a key that is not there
RECURSIVE PopLoop(_, _, _)
PopLoop(stem_to_path, stems_to_skip, k) ==
    IF k > Len(stems_to_skip) THEN [stem_to_path |-> stem_to_path, error |-> NoError]
    ELSE IF stems_to_skip[k] \notin Keys(stem_to_path)
    THEN [stem_to_path |-> stem_to_path, error |-> "KeyError"]
    ELSE PopLoop(Pop(stem_to_path, stems_to_skip[k]), stems_to_skip, k + 1)

\* lines 100-104: the loop over the image mapping's items from the k-th on
RECURSIVE PairLoop(_, _, _)
PairLoop(img, depth, k) ==
    IF k > Len(img) THEN <<>>
    ELSE (IF img[k].key \in Keys(depth)
             THEN <<<<Get(img, img[k].key), Get(depth, img[k].key)>>>>
             ELSE <<>>)
         \o PairLoop(img, depth, k + 1)

InitEvaluate ==
    /\ empty_text_embedding = None
    /\ scheduler = [timesteps |-> <<>>, num_inference_steps |-> 0]
    /\ text_encoder_calls = 0
    /\ args = None /\ generator = None /\ tape = <<>>
    /\ original_resolution = None /\ image_latent = None
    /\ sparse_depth = None /\ sparse_mask = None
    /\ sparse_range = Unbound /\ sparse_lower = Unbound
    /\ pred_latent = None /\ scale = None /\ shift = None /\ optimizer = None
    /\ timesteps = None /\ i = 0
    /\ noise = None /\ pred_epsilon = None
    /\ pred_epsilon_norm = Unbound /\ depth_latent_grad_norm = Unbound
    /\ scaling_factor = None /\ grad_norm = None
    /\ result = None /\ error = NoError
    \* lines 56-67
    /\ pc = "img_stems"
    /\ input_img_paths \in PathLists
    /\ input_depth_paths \in PathLists
    /\ img_stem_to_path = None /\ img_stems_to_skip = None
    /\ depth_stem_to_path = None /\ depth_stems_to_skip = None
    /\ input_pairs = None

\* lines 70-77
ImgStems ==
    /\ pc = "img_stems"
    /\ LET r == StemLoop(input_img_paths, 1, <<>>, <<>>)
       IN  /\ img_stem_to_path' = r.stem_to_path
           /\ img_stems_to_skip' = r.stems_to_skip
    /\ pc' = "img_pop"
    /\ UNCHANGED <<pipeline, error, input_img_paths, input_depth_paths,
                   depth_stem_to_path, depth_stems_to_skip, input_pairs>>

\* lines 78-79
ImgPop ==
    /\ pc = "img_pop"
    /\ LET r == PopLoop(img_stem_to_path, img_stems_to_skip, 1)
       IN  /\ img_stem_to_path' = r.stem_to_path
           /\ error' = r.error
           /\ pc' = IF r.error = NoError THEN "depth_stems" ELSE "raised"
    /\ UNCHANGED <<pipeline, input_img_paths, input_depth_paths, img_stems_to_skip,
                   depth_stem_to_path, depth_stems_to_skip, input_pairs>>

\* lines 82-89
DepthStems ==
    /\ pc = "depth_stems"
    /\ LET r == StemLoop(input_depth_paths, 1, <<>>, <<>>)
       IN  /\ depth_stem_to_path' = r.stem_to_path
           /\ depth_stems_to_skip' = r.stems_to_skip
    /\ pc' = "depth_pop"
    /\ UNCHANGED <<pipeline, error, input_img_paths, input_depth_paths,
                   img_stem_to_path, img_stems_to_skip, input_pairs>>

\* lines 90-91
DepthPop ==
    /\ pc = "depth_pop"
    /\ LET r == PopLoop(depth_stem_to_path, depth_stems_to_skip, 1)
       IN  /\ depth_stem_to_path' = r.stem_to_path
           /\ error' = r.error
           /\ pc' = IF r.error = NoError THEN "pairing" ELSE "raised"
    /\ UNCHANGED <<pipeline, input_img_paths, input_depth_paths, img_stem_to_path,
                   img_stems_to_skip, depth_stems_to_skip, input_pairs>>

\* lines 98-109: the pairs; without any, main ends with sys.exit(1)
Pairing ==
    /\ pc = "pairing"
    /\ input_pairs' = PairLoop(img_stem_to_path, depth_stem_to_path, 1)
    /\ IF Len(input_pairs') = 0
          THEN pc' = "exited" /\ error' = "SystemExit"
          ELSE pc' = "paired" /\ UNCHANGED error
    /\ UNCHANGED <<pipeline, input_img_paths, input_depth_paths, img_stem_to_path,
                   img_stems_to_skip, depth_stem_to_path, depth_stems_to_skip>>

NextEvaluate ==
    \/ ImgStems
    \/ ImgPop
    \/ DepthStems
    \/ DepthPop
    \/ Pairing

SpecEvaluate == InitEvaluate /\ [][NextEvaluate]_vars

\* =================================================================== claims
InvocationLive == pc # "idle"
\* the calls on the tape that belong to a loop iteration
LoopOps(tp) == Ops(tp, "unet") \cup Ops(tp, "optimizer.step") \cup Ops(tp, "scheduler.step")
\* the field has no positive entry
NoValidEntry(a) == \A k \in 1..Len(a.data) : a.data[k] <= 0

C1_RankRejectedState ==
    (InvocationLive /\ ndim(args.sparse_depth) # 2) =>
        /\ pc = "raised" /\ error = "ValueError"
        /\ tape = <<>>
        /\ result = None
C1_RankRejectedStep ==
    (pc' = "raised" /\ ndim(args'.sparse_depth) # 2) => UNCHANGED object
\* C1: a call whose sparse depth is not of rank 2 ends with a ValueError and
\* nothing else: no collaborator (text encoder, codec, scheduler, denoiser) has
\* been called, nothing is returned, and the step that raises leaves the
\* cached embedding and the rest of the pipeline object as they were.
C1_RankRejected == []C1_RankRejectedState /\ [][C1_RankRejectedStep]_vars
\* a rank-3 field is refused by a pipeline that has its embedding cached
C1_Witness ==
    /\ pc = "raised" /\ error = "ValueError"
    /\ ndim(args.sparse_depth) = 3
    /\ empty_text_embedding = TextEncoderOut

\* C2 (as claimed): a rank-2 sparse depth whose size is not the image's is
\* refused before any loop iteration runs, and no depth map is returned.
\* Stated for the calls whose configuration is valid (a step count >= 1 and a
\* documented interpolation mode), where the schedule and the resize are
\* within their contracts.
SizeMismatch(a) == ndim(a.sparse_depth) = 2 /\ a.sparse_depth.shape # a.image
C2_MismatchRejectedBeforeLoop ==
    (InvocationLive /\ SizeMismatch(args) /\ args.num_inference_steps >= 1
        /\ args.interpolation_mode \in SupportedModes) =>
        /\ LoopOps(tape) = {}
        /\ pc # "returned"

InvalidMode(a) == a.interpolation_mode \notin SupportedModes
C4_InvalidConfigRejected ==
    (InvocationLive /\ InvalidMode(args) /\ args.num_inference_steps >= 1) =>
        /\ LoopOps(tape) = {}
        /\ pc # "returned"

\* C5 (as claimed): for a valid input and N >= 1 the returned array has the
\* image's shape (H, W).
ValidInput(a) ==
    /\ ndim(a.sparse_depth) = 2 /\ a.sparse_depth.shape = a.image
    /\ ~NoValidEntry(a.sparse_depth)
    /\ a.num_inference_steps >= 1
C5_OutputShape ==
    (pc = "returned" /\ ValidInput(args)) => result.shape = args.image

\* C6: what an invocation returns is fixed by its arguments.  FreshRun(a) is the
\* computation of a call with arguments a on a pipeline that has never been
\* used: a generator seeded with a.seed, the embedding of the empty prompt, the
\* schedule for a.num_inference_steps.  Every returned array is the one of the
\* fresh run, and is computed by the same operations on the same operands,
\* whatever invocations came before.
FreshGenerator(a) == [seed |-> a.seed, draws |-> 1]
FreshScheduler(a) ==
    [timesteps |-> [k \in 1..a.num_inference_steps |-> a.num_inference_steps - k],
     num_inference_steps |-> a.num_inference_steps]
FreshSelection(a) == MaskedSelect(FromNumpy(a.sparse_depth), MaskOf(FromNumpy(a.sparse_depth)))
FreshRange(a) == depth_max(FreshSelection(a)) - depth_min(FreshSelection(a))
FreshLower(a) == depth_min(FreshSelection(a))
FreshIteration(a, k) ==
    LET t == FreshScheduler(a).timesteps[k]
    IN  ForwardOps(k, t, <<"image_latent", 0>>, Latent(k - 1), TextEncoderOut,
                   FreshScheduler(a), FreshGenerator(a))
        \o DecodeOps(k, PredOriginalSample(k), a)
        \o AffineOps(k, Scale(k - 1), Shift(k - 1), FreshRange(a), FreshLower(a))
        \o LossOps(k, FromNumpy(a.sparse_depth), MaskOf(FromNumpy(a.sparse_depth)))
        \o ScaleOps(k, PredEpsilon(k))
        \o OptimizerOps(k, Latent(k - 1), Scale(k - 1), Shift(k - 1), [step |-> k - 1])
        \o DenoiseOps(k, t, Noise(k), LatentOpt(k), FreshScheduler(a), FreshGenerator(a))
RECURSIVE FreshLoop(_, _)
FreshLoop(a, n) == IF n <= 0 THEN <<>> ELSE FreshLoop(a, n - 1) \o FreshIteration(a, n)
FreshRun(a) ==
    LET n == Len(FreshScheduler(a).timesteps)
    IN  [tape |-> EncodeOps(a, manual_seed(a.seed)) \o ParamOps(a)
                  \o SetTimestepsOps(a.num_inference_steps)
                  \o FreshLoop(a, n)
                  \o DecodeOps(0, Latent(n), a)
                  \o AffineOps(0, Scale(n), Shift(n), FreshRange(a), FreshLower(a)),
         result |-> Array(squeeze(<<1>> \o a.image \o <<1>>), <<"metric", 0>>)]
\* the tape without the call that filled the cache
RECURSIVE Computation(_)
Computation(tp) ==
    IF tp = <<>> THEN <<>>
    ELSE (IF OpName(Head(tp)) = "text_encoder" THEN <<>> ELSE <<Head(tp)>>)
         \o Computation(Tail(tp))
C6_Deterministic ==
    pc = "returned" =>
        /\ result = FreshRun(args).result
        /\ Computation(tape) = FreshRun(args).tape
\* a call with two steps returns on a pipeline whose previous call had one step
\* (the embedding is cached, and the scheduler held another schedule)
C6_Witness ==
    /\ pc = "returned"
    /\ args.num_inference_steps = 2
    /\ Ops(tape, "text_encoder") = {}
    /\ Len(tape) > 20

C7_EncodedOnceState ==
    /\ text_encoder_calls <= 1
    /\ \A k \in Ops(tape, "unet") :
          /\ OpIn(tape[k])[4] = empty_text_embedding
          /\ empty_text_embedding # None
C7_EncodedOnceStep ==
    empty_text_embedding # None => empty_text_embedding' = empty_text_embedding
\* C7: the text encoder is called at most once in the life of the pipeline
\* object; an embedding, once cached, is never replaced; and every call of the
\* denoiser is given the cached embedding.
C7_EncodedOnce == []C7_EncodedOnceState /\ [][C7_EncodedOnceStep]_vars
\* the denoiser runs in an invocation that did not call the text encoder,
\* after an invocation that failed
C7_Witness ==
    /\ text_encoder_calls = 1
    /\ Ops(tape, "unet") # {}
    /\ Ops(tape, "text_encoder") = {}

\* C8 (under SpecAffine): affine_to_metric(d) is scale^2 * range * d +
\* shift^2 * lower for every d and every value of the parameters; with scale
\* = 1 and shift = 1 it is range * d + lower, range being the largest minus
\* the smallest positive entry of the field and lower the smallest.
ValidValues(a) == {a.data[k] : k \in {j \in 1..Len(a.data) : a.data[j] > 0}}
LeastValid(a) == CHOOSE v \in ValidValues(a) : \A u \in ValidValues(a) : v <= u
GreatestValid(a) == CHOOSE v \in ValidValues(a) : \A u \in ValidValues(a) : v >= u
C8_AffineToMetric ==
    pc = "applied" =>
        /\ result.metric = scale * scale * sparse_range * result.depth
                            + shift * shift * sparse_lower
        /\ (scale = 1 /\ shift = 1) =>
              result.metric =
                  (GreatestValid(args.sparse_depth) - LeastValid(args.sparse_depth))
                      * result.depth
                  + LeastValid(args.sparse_depth)
\* the field with the measurements 2 and 8, the initial parameters, d = 3
C8_Witness ==
    /\ pc = "applied"
    /\ scale = 1 /\ shift = 1
    /\ sparse_range = 6 /\ sparse_lower = 2
    /\ result.depth = 3 /\ result.metric = 20

\* C9: between the rescaling and the optimizer step, the norm of the latent's
\* gradient equals the norm of pred_epsilon whenever the gradient's norm was at
\* least the floor; and pred_epsilon is the value computed in this iteration
\* from this iteration's noise estimate and the latent as it still is, the
\* optimizer not having stepped.
C9_GradientRescaled ==
    pc = "optimizer_step" =>
        /\ depth_latent_grad_norm >= GradFloor =>
              grad_norm[1] = pred_epsilon_norm * grad_norm[2]
        /\ pred_epsilon = PredEpsilon(i + 1)
        /\ pred_latent = Latent(i)
        /\ optimizer.step = i
        /\ \E k \in Ops(tape, "pred_epsilon") :
              /\ OpOut(tape[k]) = <<pred_epsilon>>
              /\ OpIn(tape[k])[2] = noise
              /\ OpIn(tape[k])[3] = pred_latent
        /\ OpIn(tape[Len(tape)])[2] = pred_epsilon
\* in the second iteration a gradient above the floor has been rescaled to a
\* non-zero norm
C9_Witness ==
    /\ pc = "optimizer_step" /\ i = 1
    /\ depth_latent_grad_norm > GradFloor
    /\ pred_epsilon_norm > 0
    /\ grad_norm[1] = pred_epsilon_norm * grad_norm[2]

\* C10: for N >= 1 the loop takes the schedule's timesteps in the schedule's
\* order, each once: what it has consumed is always the first i entries of the
\* schedule; the final decode is made only when all N are consumed, and once;
\* a call that returns has run exactly N iterations.
RECURSIVE Consumed(_)
Consumed(tp) ==
    IF tp = <<>> THEN <<>>
    ELSE (IF OpName(Head(tp)) = "unet" THEN <<OpIn(Head(tp))[3]>> ELSE <<>>)
         \o Consumed(Tail(tp))
FinalDecodes(tp) ==
    {k \in Ops(tp, "decode_prediction") : OpOut(tp[k]) = <<<<"decoded", 0>>>>}
C10_ScheduleConsumedInOrder ==
    (InvocationLive /\ args.num_inference_steps >= 1 /\ timesteps # None) =>
        LET N == args.num_inference_steps
            done == Consumed(tape)
        IN  /\ timesteps = scheduler.timesteps
            /\ Len(scheduler.timesteps) = N
            /\ \A j \in 1..N : \A l \in 1..N :
                  j # l => scheduler.timesteps[j] # scheduler.timesteps[l]
            /\ Len(done) <= N
            /\ done = SubSeq(scheduler.timesteps, 1, Len(done))
            /\ Cardinality(FinalDecodes(tape)) <= 1
            /\ \A k \in FinalDecodes(tape) :
                  /\ Len(done) = N
                  /\ \A u \in LoopOps(tape) : u < k
            /\ pc = "returned" =>
                  /\ Len(done) = N /\ i = N
                  /\ Cardinality(FinalDecodes(tape)) = 1
                  /\ Cardinality(Ops(tape, "optimizer.step")) = N
\* a call with two steps has returned
C10_Witness ==
    /\ pc = "returned"
    /\ args.num_inference_steps = 2
    /\ Consumed(tape) = scheduler.timesteps
    /\ Len(Consumed(tape)) = 2

\* the calls that bind a new value to the latent
LatentWrites(tp) ==
    {p \in 1..Len(tp) :
        \E j \in 1..Len(OpOut(tp[p])) :
            OpOut(tp[p])[j][1] \in {"pred_latent", "pred_latent.opt"}}
\* the calls that bind a new value to scale or to shift
ParamWrites(tp) ==
    {p \in 1..Len(tp) :
        \E j \in 1..Len(OpOut(tp[p])) : OpOut(tp[p])[j][1] \in {"scale", "shift"}}
UnetOf(tp, k) == {p \in Ops(tp, "unet") : OpOut(tp[p]) = <<Noise(k)>>}
OptimizerStepOf(tp, k) == {p \in Ops(tp, "optimizer.step") : OpOut(tp[p])[1] = LatentOpt(k)}
DenoiseStepOf(tp, k) == {p \in Ops(tp, "scheduler.step") : OpOut(tp[p]) = <<Latent(k)>>}
\* the calls of iteration k, given where its denoiser call, optimizer step and
\* denoising step are
IterationInOrder(tp, k, u, o, d) ==
    \* zero_grad opens the iteration, and one backward pass follows it
    /\ u > 1 /\ OpName(tp[u - 1]) = "optimizer.zero_grad"
    /\ Cardinality({b \in Ops(tp, "backward") : u < b /\ b < o}) = 1
    /\ \A b \in Ops(tp, "backward") :
          (u < b /\ b < o) => OpOut(tp[b])[1] = LatentGrad(k)
    \* the gradient is rescaled, and the optimizer steps with the rescaled one
    /\ o = d - 1 /\ OpName(tp[o - 1]) = "mul_"
    /\ OpOut(tp[o - 1]) = <<ScaledGrad(k)>>
    /\ OpIn(tp[o - 1])[1] = LatentGrad(k)
    /\ OpIn(tp[o])[4] = ScaledGrad(k)
    /\ OpIn(tp[o])[1] = OpIn(tp[u])[2]
    \* the denoising step: this iteration's estimate and timestep, on the
    \* latent the optimizer left
    /\ OpIn(tp[d])[1] = Noise(k)
    /\ OpIn(tp[d])[2] = OpIn(tp[u])[3]
    /\ OpIn(tp[d])[3] = LatentOpt(k)
    \* the latent is written twice, the parameters once
    /\ {p \in LatentWrites(tp) : u <= p /\ p <= d} = {o, d}
    /\ {p \in ParamWrites(tp) : u <= p /\ p <= d} = {o}
    /\ \A p \in Ops(tp, "unet") : (u <= p /\ p <= d) => p = u
C11_TwoUpdatesState ==
    (InvocationLive /\ timesteps # None) =>
        /\ \A k \in 1..i :
              /\ Cardinality(UnetOf(tape, k)) = 1
              /\ Cardinality(OptimizerStepOf(tape, k)) = 1
              /\ Cardinality(DenoiseStepOf(tape, k)) = 1
              /\ IterationInOrder(tape, k,
                                  CHOOSE u \in UnetOf(tape, k) : TRUE,
                                  CHOOSE o \in OptimizerStepOf(tape, k) : TRUE,
                                  CHOOSE d \in DenoiseStepOf(tape, k) : TRUE)
        /\ Cardinality(Ops(tape, "unet")) \in {i, i + 1}
        /\ Cardinality(Ops(tape, "optimizer.zero_grad")) = Cardinality(Ops(tape, "unet"))
        /\ Cardinality(Ops(tape, "optimizer.step")) = optimizer.step
        /\ optimizer.step \in {i, i + 1}
        /\ pc = "denoise_step" =>
              /\ pred_latent = LatentOpt(i + 1)
              /\ noise = Noise(i + 1)
              /\ optimizer.step = i + 1
        /\ pc \in {"loop", "returned"} => optimizer.step = i
C11_TwoUpdatesStep ==
    /\ pc = "denoise_step" =>
          /\ scale' = scale /\ shift' = shift /\ optimizer' = optimizer
          /\ pred_latent' = Latent(i + 1) /\ i' = i + 1
    /\ (pc \in {"loop", "scale_gradients"} /\ pc' # "idle") =>
          /\ pred_latent' = pred_latent /\ scale' = scale /\ shift' = shift
          /\ optimizer' = optimizer
    /\ pc = "optimizer_step" =>
          /\ pred_latent' = LatentOpt(i + 1) /\ scale' = Scale(i + 1)
          /\ shift' = Shift(i + 1) /\ i' = i
\* C11: every iteration updates the latent exactly twice, in this order: one
\* optimizer step, taken with the rescaled gradient of the one backward pass
\* that followed this iteration's zero_grad, from the latent the denoiser saw;
\* then one denoising step on the latent the optimizer left, with the noise
\* estimate of this iteration's single denoiser call and the same timestep.
\* scale and shift are written by the optimizer step and by nothing else in
\* the iteration.
C11_TwoUpdates == []C11_TwoUpdatesState /\ [][C11_TwoUpdatesStep]_vars
\* the second iteration has made both of its updates
C11_Witness ==
    /\ pc = "loop" /\ i = 2
    /\ pred_latent = Latent(2)
    /\ scale = Scale(2)
    /\ Cardinality(LatentWrites(tape)) = 5

\* the program points of the loop body
InLoopBody ==
    \/ pc = "loop" /\ timesteps # None /\ ~LoopDone(i, timesteps)
    \/ pc \in {"scale_gradients", "optimizer_step", "denoise_step"}
C12_LoopFrameState ==
    (InvocationLive /\ timesteps # None) =>
        \* computed once, before the first iteration
        /\ Cardinality(Ops(tape, "prepare_latents")) = 1
        /\ \A p \in Ops(tape, "prepare_latents") :
              /\ OpOut(tape[p])[1] = <<"image_latent", 0>>
              /\ \A u \in LoopOps(tape) : p < u
        /\ sparse_depth = FromNumpy(args.sparse_depth)
        /\ sparse_mask = MaskOf(FromNumpy(args.sparse_depth))
        /\ InLoopBody => image_latent = <<"image_latent", 0>>
        \* every iteration reads the same conditioning latent, mask,
        \* measurements, range and lower bound
        /\ \A p \in Ops(tape, "unet") : OpIn(tape[p])[1] = <<"image_latent", 0>>
        /\ \A p \in Ops(tape, "affine_to_metric") :
              /\ OpIn(tape[p])[2] = sparse_range
              /\ OpIn(tape[p])[5] = sparse_lower
        /\ \A p \in Ops(tape, "loss_l1l2") :
              /\ OpIn(tape[p])[2] = sparse_mask.data
              /\ OpIn(tape[p])[3] = MaskedSelect(sparse_depth, sparse_mask)
        \* nothing but the latent, scale, shift and the optimizer is carried
        \* from one iteration to the next
        /\ pc = "loop" =>
              /\ noise = None /\ pred_epsilon = None
              /\ scaling_factor = None /\ grad_norm = None
              /\ pred_epsilon_norm = Unbound /\ depth_latent_grad_norm = Unbound
C12_LoopFrameStep ==
    (InLoopBody /\ pc' # "idle") =>
        UNCHANGED <<object, args, setup_locals, timesteps, result>>
\* C12: the conditioning latent, the sparse depth, the mask, the range and the
\* lower bound are computed once before the first iteration, no step of an
\* iteration changes them (nor the pipeline object, the arguments or the
\* schedule), and every iteration reads the same ones; between iterations only
\* the latent, scale, shift and the optimizer's state differ.
C12_LoopFrame == []C12_LoopFrameState /\ [][C12_LoopFrameStep]_vars
\* two iterations are done on a field with the measurements 2 and 8
C12_Witness ==
    /\ pc = "loop" /\ i = 2
    /\ sparse_range = 6 /\ sparse_lower = 2
    /\ Cardinality(Ops(tape, "affine_to_metric")) = 2
    /\ optimizer.step = 2

\* an entry > 0, as numbers compare: infinity is, not-a-number is not
Measured(v) == v # NaN /\ v > 0
HasMeasurement(a) == \E k \in 1..Len(a.data) : Measured(a.data[k])
\* every entry is a number single precision holds
SinglePrecisionField(a) ==
    \A k \in 1..Len(a.data) : a.data[k] = NaN \/ a.data[k] \in (-MaxFloat32)..MaxFloat32
\* what the statistics of the field a are said to be
StatisticsOf(a) ==
    /\ pc = "calibrated"
    /\ \A k \in 1..Len(a.data) : sparse_mask.data[k] <=> Measured(a.data[k])
    /\ \E k \in 1..Len(a.data) : Measured(a.data[k]) /\ sparse_lower = a.data[k]
    /\ \A k \in 1..Len(a.data) : Measured(a.data[k]) => sparse_lower <= a.data[k]
    /\ \E k \in 1..Len(a.data) :
          /\ Measured(a.data[k])
          /\ \A j \in 1..Len(a.data) : Measured(a.data[j]) => a.data[j] <= a.data[k]
          /\ a.data[k] >= sparse_lower
          /\ sparse_range = Minus(a.data[k], sparse_lower)
    /\ sparse_range # NaN /\ sparse_range >= 0
    /\ {a.data[k] : k \in {j \in 1..Len(a.data) : Measured(a.data[j])}} = {2, 8} =>
          sparse_range = 6 /\ sparse_lower = 2
\* C13 (as claimed, under SpecStatistics): for every field with an entry > 0
\* the mask is true exactly at the entries > 0, lower is the least and
\* ObservedMax the greatest of them, and range = ObservedMax - lower is a
\* number >= 0; the measurements 2 and 8 give range 6 and lower 2.
C13_MaskAndStatistics ==
    (pc # "statistics" /\ HasMeasurement(args.sparse_depth)) =>
        StatisticsOf(args.sparse_depth)
\* the same for the fields whose entries single precision holds: there the
\* statistics are as said
C13_SinglePrecisionFields ==
    (pc # "statistics" /\ HasMeasurement(args.sparse_depth)
        /\ SinglePrecisionField(args.sparse_depth)) =>
        StatisticsOf(args.sparse_depth)

\* how often a stem occurs in a list of paths
Occurrences(paths, stem) == Cardinality({k \in 1..Len(paths) : paths[k].stem = stem})
OccurringOnce(paths) == {st \in PathStems : Occurrences(paths, st) = 1}
AtMostTwice(paths) == \A st \in PathStems : Occurrences(paths, st) <= 2
\* what main's mappings and pairs are said to be, as far as main has come
MappingsAsSaid ==
    /\ pc # "raised"
    /\ pc \in {"depth_stems", "depth_pop", "pairing", "paired", "exited"} =>
          Keys(img_stem_to_path) = OccurringOnce(input_img_paths)
    /\ pc \in {"pairing", "paired", "exited"} =>
          Keys(depth_stem_to_path) = OccurringOnce(input_depth_paths)
    /\ pc \in {"paired", "exited"} =>
          LET both == Keys(img_stem_to_path) \cap Keys(depth_stem_to_path)
          IN  /\ Len(input_pairs) = Cardinality(both)
              /\ \A st \in both :
                    \E k \in 1..Len(input_pairs) :
                        /\ input_pairs[k][1] \in {input_img_paths[j] : j \in 1..Len(input_img_paths)}
                        /\ input_pairs[k][2] \in {input_depth_paths[j] : j \in 1..Len(input_depth_paths)}
                        /\ input_pairs[k][1].stem = st /\ input_pairs[k][2].stem = st
\* C14 (as claimed, under SpecEvaluate): for any two lists of paths, a stem
\* occurring three times included, main builds its two mappings without
\* raising; a mapping holds exactly the stems that occur once in its list; and
\* the pairs are those of the stems in both mappings.
C14_StemMappings == input_img_paths # None => MappingsAsSaid
\* the same for lists in which no stem occurs more than twice: there the
\* mappings and the pairs are as said
C14_StemsAtMostTwice ==
    (input_img_paths # None /\ AtMostTwice(input_img_paths)
        /\ AtMostTwice(input_depth_paths)) => MappingsAsSaid

====
